---- MODULE Spec2Model ----
(***************************************************************************)
(* Model of the Noodle core: the Redis fixed-window rate limiter           *)
(* (src/lib/rate-limit.ts), the module table (src/db/schema), the modules  *)
(* tRPC router (src/server/routers/modules.ts) and the error classes       *)
(* (src/lib/errors.ts).                                                    *)
(***************************************************************************)
EXTENDS Integers, Sequences, FiniteSets, TLC

(***************************************************************************)
(* Bounds of the model.                                                    *)
(***************************************************************************)
MaxTime == 1
MaxCount == 3
MaxLimit == 2
MaxWindow == 1

MaxModules == 2
MaxCrudModules == 1
MaxClock == 2
MaxCrudClock == 1
MaxPageLimit == 1

MaxRetryAfter == 4

MaxRevisitModules == 3
MaxRevisitLimit == 2

Procs == {"p1", "p2"}
Identifiers == {"u1"}
Limits == 1..MaxLimit
Windows == 1..MaxWindow

VARIABLES
  now,        \* clock of the key-value store and of Date.now(), in seconds
  kv,         \* the key-value store: key -> [count, exp]
  rl,         \* the rateLimit call of every process
  win,        \* history: per key, calls counted in the current window
  everFailed  \* history: some store operation has failed

rlVars == <<now, kv, rl, win, everFailed>>

VARIABLES
  clock,         \* clock of the database and of the server, in ticks
  modulesTable,  \* the rows of the modules table
  lastOp,        \* the last Module API call and what its caller got back
  trav           \* history: the pages a client got by following nextCursor

modVars == <<clock, modulesTable, lastOp, trav>>

VARIABLES
  appError       \* the last error constructed, with the constructor call

errVars == <<appError>>

VARIABLES
  pending        \* per process, the update or updateLastVisited under way

concVars == <<pending>>

vars == <<now, kv, rl, win, everFailed, clock, modulesTable, lastOp, trav,
          appError, pending>>

(***************************************************************************)
(* The key-value store (Redis commands used by rateLimit).                 *)
(***************************************************************************)
NoExpiry == -1
MsPerSecond == 1000

Key(identifier) == "rate_limit:" \o identifier
Keys == {Key(i) : i \in Identifiers}

NoKey == [count |-> 0, exp |-> NoExpiry]

KeyExists(store, k) == store[k].count > 0

\* RedisIncr as a read and a write that are not atomic: an update is lost
RedisIncrLost(store, k) ==
  [store EXCEPT ![k].count = IF @ = 0 THEN 1 ELSE @]

\* INCR: creates the key with value 1 and no expiry, or adds 1
RedisIncr(store, k) == [store EXCEPT ![k].count = @ + 1]

\* EXPIRE key seconds: sets the expiry of an existing key
RedisExpire(store, k, seconds, t) ==
  IF KeyExists(store, k) THEN [store EXCEPT ![k].exp = t + seconds] ELSE store

\* TTL key: -2 when the key does not exist, -1 when it has no expiry
RedisTtl(store, k, t) ==
  IF ~KeyExists(store, k) THEN -2
  ELSE IF store[k].exp = NoExpiry THEN -1
  ELSE store[k].exp - t

\* keys whose expiry has passed are removed by the store
RedisExpireKeys(store, t) ==
  [k \in DOMAIN store |->
     IF KeyExists(store, k) /\ store[k].exp # NoExpiry /\ store[k].exp <= t
     THEN NoKey ELSE store[k]]

(***************************************************************************)
(* rateLimit(identifier, limit, window)                                    *)
(***************************************************************************)
Max(a, b) == IF a >= b THEN a ELSE b

DateNow(t) == t * MsPerSecond

NoResult == [success |-> FALSE, remaining |-> 0, reset |-> 0]

IdleCall == [pc |-> "idle", identifier |-> "u1", limit |-> 1, window |-> 1,
             count |-> 0, result |-> NoResult, ord |-> 0, failed |-> FALSE,
             at |-> 0, life |-> 0]

\* RateLimitResult without the floor of remaining
RateLimitResultNoFloor(count, limit, ttl, t) ==
  [success |-> count <= limit,
   remaining |-> limit - count,
   reset |-> DateNow(t) + ttl * MsPerSecond]

\* RateLimitResult with the comparison off by one
RateLimitResultOffByOne(count, limit, ttl, t) ==
  [success |-> count < limit,
   remaining |-> Max(0, limit - count),
   reset |-> DateNow(t) + ttl * MsPerSecond]

\* the value returned on the success path
RateLimitResult(count, limit, ttl, t) ==
  [success |-> count <= limit,
   remaining |-> Max(0, limit - count),
   reset |-> DateNow(t) + ttl * MsPerSecond]

\* RateLimitFailOpen failing closed
RateLimitFailClosed(limit, window, t) ==
  [success |-> FALSE,
   remaining |-> 0,
   reset |-> DateNow(t) + window * MsPerSecond]

\* the value returned by the catch block
RateLimitFailOpen(limit, window, t) ==
  [success |-> TRUE,
   remaining |-> limit,
   reset |-> DateNow(t) + window * MsPerSecond]

NoWindow == [calls |-> 0, deadline |-> NoExpiry, life |-> 0]

\* the catch block: the call returns the fail-open result
Catch(p) ==
  /\ rl' = [rl EXCEPT ![p].pc = "done", ![p].failed = TRUE, ![p].at = now,
              ![p].result = RateLimitFailOpen(rl[p].limit, rl[p].window, now)]
  /\ everFailed' = TRUE

RateLimitCall(p, identifier, limit, window) ==
  /\ rl[p].pc = "idle"
  /\ kv[Key(identifier)].count < MaxCount
  /\ rl' = [rl EXCEPT ![p] = [IdleCall EXCEPT !.pc = "incr",
                                !.identifier = identifier,
                                !.limit = limit, !.window = window]]
  /\ UNCHANGED <<now, kv, win, everFailed>>
  /\ UNCHANGED <<modVars, errVars, concVars>>

\* AfterIncr with an expire issued by every call
AfterIncrAlways(count) == "expire"

\* if (count === 1) { await redis.expire(key, window) }
AfterIncr(count) == IF count = 1 THEN "expire" ELSE "ttl"

\* const count = await redis.incr(key)
Incr(p) ==
  /\ rl[p].pc = "incr"
  /\ LET k == Key(rl[p].identifier)
         store == RedisIncr(kv, k)
         count == store[k].count
     IN /\ kv' = store
        /\ win' = [win EXCEPT ![k].calls = @ + 1,
                              ![k].life = IF count = 1 THEN now ELSE @]
        /\ rl' = [rl EXCEPT ![p].count = count,
                            ![p].ord = win[k].calls + 1,
                            ![p].life = IF count = 1 THEN now ELSE win[k].life,
                            ![p].pc = AfterIncr(count)]
  /\ UNCHANGED <<now, everFailed>>
  /\ UNCHANGED <<modVars, errVars, concVars>>

IncrFails(p) ==
  /\ rl[p].pc = "incr"
  /\ Catch(p)
  /\ UNCHANGED <<now, kv, win>>
  /\ UNCHANGED <<modVars, errVars, concVars>>

\* if (count === 1) await redis.expire(key, window)
Expire(p) ==
  /\ rl[p].pc = "expire"
  /\ LET k == Key(rl[p].identifier)
     IN /\ kv' = RedisExpire(kv, k, rl[p].window, now)
        /\ win' = [win EXCEPT ![k].deadline = now + rl[p].window]
  /\ rl' = [rl EXCEPT ![p].pc = "ttl"]
  /\ UNCHANGED <<now, everFailed>>
  /\ UNCHANGED <<modVars, errVars, concVars>>

ExpireFails(p) ==
  /\ rl[p].pc = "expire"
  /\ Catch(p)
  /\ UNCHANGED <<now, kv, win>>
  /\ UNCHANGED <<modVars, errVars, concVars>>

\* const ttl = await redis.ttl(key); const reset = Date.now() + ttl * 1000
Ttl(p) ==
  /\ rl[p].pc = "ttl"
  /\ LET ttl == RedisTtl(kv, Key(rl[p].identifier), now)
     IN rl' = [rl EXCEPT ![p].pc = "done", ![p].at = now,
                 ![p].result = RateLimitResult(rl[p].count, rl[p].limit, ttl, now)]
  /\ UNCHANGED <<now, kv, win, everFailed>>
  /\ UNCHANGED <<modVars, errVars, concVars>>

TtlFails(p) ==
  /\ rl[p].pc = "ttl"
  /\ Catch(p)
  /\ UNCHANGED <<now, kv, win>>
  /\ UNCHANGED <<modVars, errVars, concVars>>

\* the caller takes the result
Return(p) ==
  /\ rl[p].pc = "done"
  /\ rl' = [rl EXCEPT ![p] = IdleCall]
  /\ UNCHANGED <<now, kv, win, everFailed>>
  /\ UNCHANGED <<modVars, errVars, concVars>>

\* one second passes; the store drops the keys that have expired
Tick ==
  /\ now < MaxTime
  /\ now' = now + 1
  /\ kv' = RedisExpireKeys(kv, now + 1)
  /\ win' = [k \in Keys |->
               IF win[k].deadline # NoExpiry /\ win[k].deadline <= now + 1
               THEN NoWindow ELSE win[k]]
  /\ UNCHANGED <<rl, everFailed>>
  /\ UNCHANGED <<modVars, errVars, concVars>>

InitRL ==
  /\ now = 0
  /\ kv = [k \in Keys |-> NoKey]
  /\ rl = [p \in Procs |-> IdleCall]
  /\ win = [k \in Keys |-> NoWindow]
  /\ everFailed = FALSE

(***************************************************************************)
(* The modules table (schema) and the values a caller sees.                *)
(***************************************************************************)
Users == {"u1", "u2"}
Ids == 1..MaxModules
UnknownId == 0
AllIds == {UnknownId} \cup Ids

Absent == "<absent>"
AbsentNumber == -1
NoCursor == -1
NoLimit == -1
MalformedCursor == -2

\* column defaults of modulesTable and of insertModuleSchema
DefaultIcon == "default"
DefaultColor == "default"
DefaultCredits == 0
DefaultLimit == 20
LimitMin == 1
LimitMax == 100

\* a timestamp column holds the database clock (ticks); a JS Date holds whole
\* milliseconds only
TicksPerMs == 2

ToDate(ts) == (ts \div TicksPerMs) * TicksPerMs

\* a row as the driver hands it to the caller (timestamps as JS Dates)
ToJs(r) == [r EXCEPT !.createdAt = ToDate(@), !.modifiedAt = ToDate(@),
                     !.lastVisited = ToDate(@)]

\* NewId that hands out one id again
NewIdReused(tbl) == Max(1, Cardinality(tbl))

\* id: uuid().defaultRandom(): an id no row has
NewId(tbl) == Cardinality(tbl) + 1

\* insertModuleSchema: optional fields take their defaults when absent
ParseModuleInput(input) ==
  [name |-> input.name,
   description |-> input.description,
   code |-> input.code,
   icon |-> IF input.icon = Absent THEN DefaultIcon ELSE input.icon,
   color |-> IF input.color = Absent THEN DefaultColor ELSE input.color,
   credits |-> IF input.credits = AbsentNumber THEN DefaultCredits
               ELSE input.credits]

\* OrEmpty that keeps an absent value
OrEmptyKept(x) == x

\* x ?? ''
OrEmpty(x) == IF x = Absent THEN "" ELSE x

NoInput == [name |-> Absent, description |-> Absent, code |-> Absent,
            icon |-> Absent, color |-> Absent, credits |-> AbsentNumber]

CreateInputs ==
  { [name |-> "Algorithms", description |-> Absent, code |-> "CS201",
     icon |-> Absent, color |-> Absent, credits |-> 4],
    [name |-> "Databases", description |-> "intro", code |-> "CS301",
     icon |-> "book", color |-> "red", credits |-> AbsentNumber] }

UpdateInputs ==
  { [name |-> "Algorithms", description |-> Absent, code |-> "CS201",
     icon |-> Absent, color |-> Absent, credits |-> AbsentNumber],
    [name |-> "Networks", description |-> "tcp", code |-> "CS401",
     icon |-> "globe", color |-> "blue", credits |-> 6] }

Faults == {"none", "DrizzleError", "Error"}

(***************************************************************************)
(* The error classes (src/lib/errors.ts).                                  *)
(***************************************************************************)
DefaultStatusCode == 500

\* AppError without the default of statusCode
AppErrorNoDefault(code, message, statusCode) ==
  [name |-> "AppError", code |-> code, message |-> message,
   statusCode |-> statusCode, fields |-> Absent, retryAfter |-> AbsentNumber]

\* new AppError(code, message, statusCode = 500)
AppError(code, message, statusCode) ==
  [name |-> "AppError", code |-> code, message |-> message,
   statusCode |-> IF statusCode = AbsentNumber THEN DefaultStatusCode
                  ELSE statusCode,
   fields |-> Absent, retryAfter |-> AbsentNumber]

\* a parameter default: message = '...'
OrDefault(message, default) == IF message = Absent THEN default ELSE message

\* identifier ? ... : ...  (absent and '' are falsy)
Truthy(x) == x # Absent /\ x # ""

NotFoundError(resource, identifier) ==
  LET message == IF Truthy(identifier)
                 THEN resource \o " with identifier '" \o identifier
                      \o "' not found"
                 ELSE resource \o " not found"
  IN [AppError("NOT_FOUND", message, 404) EXCEPT !.name = "NotFoundError"]

UnauthorizedError(message) ==
  [AppError("UNAUTHORIZED", OrDefault(message, "Unauthorized access"), 401)
     EXCEPT !.name = "UnauthorizedError"]

ForbiddenError(message) ==
  [AppError("FORBIDDEN", OrDefault(message, "Access forbidden"), 403)
     EXCEPT !.name = "ForbiddenError"]

ValidationError(message, fields) ==
  [AppError("VALIDATION_ERROR", message, 400)
     EXCEPT !.name = "ValidationError", !.fields = fields]

ConflictError(message) ==
  [AppError("CONFLICT", message, 409) EXCEPT !.name = "ConflictError"]

RateLimitError(message, retryAfter) ==
  [AppError("RATE_LIMIT_EXCEEDED", OrDefault(message, "Too many requests"), 429)
     EXCEPT !.name = "RateLimitError", !.retryAfter = retryAfter]

InternalError(message) ==
  [AppError("INTERNAL_ERROR", OrDefault(message, "Internal server error"), 500)
     EXCEPT !.name = "InternalError"]

\* constructor arguments
Messages == {"", "boom", "not allowed", "quota used up"}
OptMessages == Messages \cup {Absent}
Codes == {"E_CUSTOM", "NOT_FOUND", "TEAPOT"}
StatusCodes == {AbsentNumber, 200, 404, 418, 503}
Resources == {"Module", "User", "Note"}
OptIdentifiers == {Absent, "", "42", "abc"}
OptFields == {Absent, "{}", "{name: 'required'}"}
OptRetryAfter == {AbsentNumber} \cup (0..MaxRetryAfter)

\* a constructor call: the class and its arguments
NoArgs == [kind |-> "none", code |-> Absent, message |-> Absent,
           statusCode |-> AbsentNumber, resource |-> Absent,
           identifier |-> Absent, fields |-> Absent,
           retryAfter |-> AbsentNumber]

NoAppError == [call |-> NoArgs, error |-> AppError(Absent, Absent, AbsentNumber)]

\* throw / new: the error object a constructor call yields
New(call, error) ==
  /\ appError' = [call |-> call, error |-> error]
  /\ UNCHANGED <<rlVars, modVars, concVars>>

NewAppError(code, message, statusCode) ==
  New([NoArgs EXCEPT !.kind = "AppError", !.code = code, !.message = message,
                     !.statusCode = statusCode],
      AppError(code, message, statusCode))

NewNotFoundError(resource, identifier) ==
  New([NoArgs EXCEPT !.kind = "NotFoundError", !.resource = resource,
                     !.identifier = identifier],
      NotFoundError(resource, identifier))

NewUnauthorizedError(message) ==
  New([NoArgs EXCEPT !.kind = "UnauthorizedError", !.message = message],
      UnauthorizedError(message))

NewForbiddenError(message) ==
  New([NoArgs EXCEPT !.kind = "ForbiddenError", !.message = message],
      ForbiddenError(message))

NewValidationError(message, fields) ==
  New([NoArgs EXCEPT !.kind = "ValidationError", !.message = message,
                     !.fields = fields],
      ValidationError(message, fields))

NewConflictError(message) ==
  New([NoArgs EXCEPT !.kind = "ConflictError", !.message = message],
      ConflictError(message))

NewRateLimitError(message, retryAfter) ==
  New([NoArgs EXCEPT !.kind = "RateLimitError", !.message = message,
                     !.retryAfter = retryAfter],
      RateLimitError(message, retryAfter))

NewInternalError(message) ==
  New([NoArgs EXCEPT !.kind = "InternalError", !.message = message],
      InternalError(message))

InitErrors == appError = NoAppError

(***************************************************************************)
(* Queries of the store.                                                   *)
(***************************************************************************)
\* WhereIdAndUser without the owner
WhereIdAnyUser(tbl, id, userId) == {r \in tbl : r.id = id}

\* where and(eq(t.id, id), eq(t.user_id, userId))
WhereIdAndUser(tbl, id, userId) ==
  {r \in tbl : r.id = id /\ r.user_id = userId}

\* where eq(t.id, id)
WhereId(tbl, id) == {r \in tbl : r.id = id}

\* WhereUserBefore without the owner
WhereBeforeAnyUser(tbl, userId, hasCursorDate, cursorDate) ==
  {r \in tbl : hasCursorDate => r.lastVisited < cursorDate}

\* WhereUserBefore with lte in place of lt
WhereUserNotAfter(tbl, userId, hasCursorDate, cursorDate) ==
  {r \in tbl : /\ r.user_id = userId
               /\ hasCursorDate => r.lastVisited <= cursorDate}

\* WhereUserBefore that hides archived rows
WhereUserBeforeActive(tbl, userId, hasCursorDate, cursorDate) ==
  {r \in tbl : /\ r.user_id = userId /\ ~r.archived
               /\ hasCursorDate => r.lastVisited < cursorDate}

\* where eq(t.user_id, userId) [and lt(t.lastVisited, cursorDate)]
WhereUserBefore(tbl, userId, hasCursorDate, cursorDate) ==
  {r \in tbl : /\ r.user_id = userId
               /\ hasCursorDate => r.lastVisited < cursorDate}

Min(a, b) == IF a <= b THEN a ELSE b

SeqRange(s) == {s[i] : i \in DOMAIN s}

\* orderBy desc(t.lastVisited): every order of the rows that is descending
\* in lastVisited (the order of rows with equal lastVisited is the store's)
OrderByLastVisitedDesc(rows) ==
  {s \in [1..Cardinality(rows) -> rows] :
     /\ SeqRange(s) = rows
     /\ \A i \in 1..(Cardinality(rows) - 1) :
          s[i].lastVisited >= s[i + 1].lastVisited}

\* limit n
LimitRows(s, n) == SubSeq(s, 1, Min(n, Len(s)))

\* .where(and(eq(modulesTable.id, id), eq(modulesTable.user_id, userId)))
Matches(r, id, userId) == r.id = id /\ r.user_id = userId

(***************************************************************************)
(* What a caller gets back.                                                *)
(***************************************************************************)
NoError == "none"

Result(err, rows, items, nextCursor, affected) ==
  [err |-> err, rows |-> rows, items |-> items, nextCursor |-> nextCursor,
   affected |-> affected]

Failure(err) == Result(err, {}, <<>>, NoCursor, 0)

Call(op, caller, id, input, limit, cursor, fault, result) ==
  [op |-> op, caller |-> caller, id |-> id, input |-> input, limit |-> limit,
   cursor |-> cursor, fault |-> fault, result |-> result, was |-> {}]

\* history: the rows an archive or a recover matched, as they were before it
ArchivedFrom(op, tbl, userId, id) ==
  IF op \in {"archive", "recover"} THEN WhereIdAndUser(tbl, id, userId) ELSE {}

NoCall == Call("none", "u1", UnknownId, NoInput, NoLimit, NoCursor, "none",
               Failure(NoError))

NoTrav == [user |-> "u1", limit |-> 0, next |-> NoCursor, prev |-> {},
           page |-> {}, seen |-> <<>>, clean |-> TRUE, state |-> "idle"]

\* a write that changed a row ends the "store unchanged" condition of the
\* traversal in progress
TravAfterWrite(tbl) ==
  IF trav.state # "idle" /\ tbl # modulesTable
  THEN [trav EXCEPT !.clean = FALSE] ELSE trav

(***************************************************************************)
(* modulesRouter                                                           *)
(***************************************************************************)
Ids2Seq(items) == [i \in DOMAIN items |-> items[i].id]

\* the class of what a procedure throws: the router throws TRPCError with a
\* code, and lets the errors of the store through as they are
ThrownClass(err) == IF err \in {"DrizzleError", "Error"} THEN err ELSE "TRPCError"

\* getById: the catch block maps whatever the try block threw
GetByIdCatch(error) ==
  IF error = "DrizzleError" THEN "BAD_REQUEST" ELSE "INTERNAL_SERVER_ERROR"

\* getById: the try block; what it throws, or "none"
GetByIdTry(tbl, userId, id, fault) ==
  IF fault # "none" THEN fault
  ELSE IF WhereIdAndUser(tbl, id, userId) = {} THEN "TRPCError BAD_REQUEST"
  ELSE "none"

GetByIdResult(tbl, userId, id, fault) ==
  LET thrown == GetByIdTry(tbl, userId, id, fault)
  IN IF thrown = "none"
     THEN Result(NoError, {ToJs(r) : r \in WhereIdAndUser(tbl, id, userId)},
                 <<>>, NoCursor, 0)
     ELSE Failure(GetByIdCatch(thrown))

GetById(u, id, fault) ==
  /\ lastOp' = Call("getById", u, id, NoInput, NoLimit, NoCursor, fault,
                    GetByIdResult(modulesTable, u, id, fault))
  /\ UNCHANGED <<clock, modulesTable, trav>>
  /\ UNCHANGED <<rlVars, errVars, concVars>>

\* getUserModules: z.number().min(1).max(100).default(20)
ParseLimit(limit) == IF limit = NoLimit THEN DefaultLimit ELSE limit

ValidLimit(limit) == LimitMin <= limit /\ limit <= LimitMax

\* getUserModules: z.string().uuid().optional()
ValidCursor(cursor) == cursor # MalformedCursor

\* getUserModules: the rows of the cursor lookup (not scoped to the caller)
CursorRows(tbl, userId, cursor) ==
  IF cursor # NoCursor THEN WhereId(tbl, cursor) ELSE {}

\* Matching that takes a cursor without a row for a cursor before every row
MatchingStrict(tbl, userId, cursor) ==
  LET found == CursorRows(tbl, userId, cursor)
      cursorDate == IF found = {} THEN 0
                    ELSE ToDate((CHOOSE r \in found : TRUE).lastVisited)
  IN WhereUserBefore(tbl, userId, cursor # NoCursor, cursorDate)

\* getUserModules: the rows the findMany may select from
Matching(tbl, userId, cursor) ==
  LET found == CursorRows(tbl, userId, cursor)
      cursorDate == IF found = {} THEN 0
                    ELSE ToDate((CHOOSE r \in found : TRUE).lastVisited)
  IN WhereUserBefore(tbl, userId, found # {}, cursorDate)

PageOfFullPage(modules, limit) ==
  LET hasMore == Len(modules) >= limit
      items == IF hasMore THEN SubSeq(modules, 1, Len(modules) - 1)
               ELSE modules
  IN Result(NoError, {}, [i \in DOMAIN items |-> ToJs(items[i])],
            IF hasMore /\ items # <<>> THEN items[Len(items)].id
            ELSE NoCursor, 0)

\* getUserModules: items and nextCursor from the limit + 1 rows fetched
PageOf(modules, limit) ==
  LET hasMore == Len(modules) > limit
      items == IF hasMore THEN SubSeq(modules, 1, Len(modules) - 1)
               ELSE modules
  IN Result(NoError, {}, [i \in DOMAIN items |-> ToJs(items[i])],
            IF hasMore /\ items # <<>> THEN items[Len(items)].id
            ELSE NoCursor, 0)

\* every page getUserModules may return
GetUserModulesResults(tbl, userId, limit, cursor) ==
  {PageOf(LimitRows(s, limit + 1), limit) :
     s \in OrderByLastVisitedDesc(Matching(tbl, userId, cursor))}

GetUserModulesCall(u, rawLimit, cursor) ==
  /\ LET limit == ParseLimit(rawLimit)
     IN IF ~ValidLimit(limit) \/ ~ValidCursor(cursor)
        THEN lastOp' = Call("getUserModules", u, UnknownId, NoInput,
                            rawLimit, cursor, "none", Failure("BAD_REQUEST"))
        ELSE \E page \in GetUserModulesResults(modulesTable, u, limit, cursor) :
               lastOp' = Call("getUserModules", u, UnknownId, NoInput,
                              rawLimit, cursor, "none", page)
  /\ UNCHANGED <<clock, modulesTable>>
  /\ UNCHANGED <<rlVars, errVars, concVars>>

GetUserModules(u, rawLimit, cursor) ==
  /\ GetUserModulesCall(u, rawLimit, cursor)
  /\ UNCHANGED trav

\* a client asks for the first page
FirstPage(u, limit) ==
  /\ GetUserModulesCall(u, limit, NoCursor)
  /\ LET page == lastOp'.result
         ids == Ids2Seq(page.items)
     IN trav' = [user |-> u, limit |-> limit, next |-> page.nextCursor,
                 prev |-> {}, page |-> SeqRange(ids), seen |-> ids,
                 clean |-> TRUE,
                 state |-> IF page.nextCursor = NoCursor THEN "done"
                           ELSE "paging"]

\* the client asks for the next page with the nextCursor it was given
NextPage ==
  /\ trav.state = "paging"
  /\ GetUserModulesCall(trav.user, trav.limit, trav.next)
  /\ LET page == lastOp'.result
         ids == Ids2Seq(page.items)
     IN trav' = [trav EXCEPT !.next = page.nextCursor, !.prev = trav.page,
                             !.page = SeqRange(ids), !.seen = @ \o ids,
                             !.state = IF page.nextCursor = NoCursor
                                       THEN "done" ELSE "paging"]

\* a store operation of a handler without a catch block throws
StoreFails(op, u, fault) ==
  /\ lastOp' = Call(op, u, UnknownId, NoInput, NoLimit, NoCursor, fault,
                    Failure(fault))
  /\ UNCHANGED <<clock, modulesTable, trav>>
  /\ UNCHANGED <<rlVars, errVars, concVars>>

\* create: the row inserted (column defaults for id, archived, timestamps)
NewRow(tbl, userId, input, t) ==
  LET v == ParseModuleInput(input)
  IN [id |-> NewId(tbl), user_id |-> userId, name |-> v.name,
      description |-> OrEmpty(v.description), code |-> v.code,
      icon |-> v.icon, color |-> v.color, archived |-> FALSE,
      credits |-> v.credits, createdAt |-> t, modifiedAt |-> t,
      lastVisited |-> t]

Create(u, input) ==
  /\ LET row == NewRow(modulesTable, u, input, clock)
     IN /\ modulesTable' = modulesTable \cup {row}
        /\ lastOp' = Call("create", u, UnknownId, input, NoLimit, NoCursor,
                          "none", Result(NoError, {ToJs(row)}, <<>>, NoCursor, 1))
        /\ trav' = TravAfterWrite(modulesTable \cup {row})
  /\ UNCHANGED clock
  /\ UNCHANGED <<rlVars, errVars, concVars>>

\* SetArchived that writes a second column
SetArchivedAndCredits(tbl, userId, id, flag) ==
  {IF Matches(r, id, userId)
   THEN [r EXCEPT !.archived = flag, !.credits = DefaultCredits] ELSE r :
     r \in tbl}

\* archive / recover: set({ archived }) where id and user_id match
SetArchived(tbl, userId, id, flag) ==
  {IF Matches(r, id, userId) THEN [r EXCEPT !.archived = flag] ELSE r :
     r \in tbl}

Affected(tbl, userId, id) == Cardinality(WhereIdAndUser(tbl, id, userId))

Write(op, u, id, input, tbl) ==
  /\ modulesTable' = tbl
  /\ lastOp' = [Call(op, u, id, input, NoLimit, NoCursor, "none",
                     Result(NoError, {}, <<>>, NoCursor,
                            Affected(modulesTable, u, id)))
                  EXCEPT !.was = ArchivedFrom(op, modulesTable, u, id)]
  /\ trav' = TravAfterWrite(tbl)
  /\ UNCHANGED clock
  /\ UNCHANGED <<rlVars, errVars, concVars>>

Archive(u, id) ==
  Write("archive", u, id, NoInput, SetArchived(modulesTable, u, id, TRUE))

Recover(u, id) ==
  Write("recover", u, id, NoInput, SetArchived(modulesTable, u, id, FALSE))

\* UpdateSet that also writes created_at
UpdateSetAndCreatedAt(r, input, t) ==
  LET v == ParseModuleInput(input)
  IN [r EXCEPT !.name = v.name, !.code = v.code, !.icon = v.icon,
               !.color = v.color, !.credits = v.credits,
               !.description = OrEmpty(v.description),
               !.modifiedAt = ToDate(t), !.createdAt = ToDate(t)]

\* update: the values of set(); every picked field is written
UpdateSet(r, input, t) ==
  LET v == ParseModuleInput(input)
  IN [r EXCEPT !.name = v.name, !.code = v.code, !.icon = v.icon,
               !.color = v.color, !.credits = v.credits,
               !.description = OrEmpty(v.description),
               !.modifiedAt = ToDate(t)]

UpdateRows(tbl, userId, id, input, t) ==
  {IF Matches(r, id, userId) THEN UpdateSet(r, input, t) ELSE r : r \in tbl}

\* update without the existence check
UpdateErrorNever(tbl, userId, id) == NoError

\* update: the existence check
UpdateError(tbl, userId, id) ==
  IF WhereIdAndUser(tbl, id, userId) = {} THEN "NOT_FOUND" ELSE NoError

Update(u, id, input) ==
  IF UpdateError(modulesTable, u, id) # NoError
  THEN /\ lastOp' = Call("update", u, id, input, NoLimit, NoCursor, "none",
                         Failure(UpdateError(modulesTable, u, id)))
       /\ UNCHANGED <<clock, modulesTable, trav>>
       /\ UNCHANGED <<rlVars, errVars, concVars>>
  ELSE Write("update", u, id, input,
             UpdateRows(modulesTable, u, id, input, clock))

\* TouchRows without the owner
TouchRowsAnyUser(tbl, userId, id, t) ==
  {IF r.id = id THEN [r EXCEPT !.lastVisited = ToDate(t)] ELSE r : r \in tbl}

\* updateLastVisited: set({ lastVisited: new Date() })
TouchRows(tbl, userId, id, t) ==
  {IF Matches(r, id, userId) THEN [r EXCEPT !.lastVisited = ToDate(t)] ELSE r :
     r \in tbl}

UpdateLastVisited(u, id) ==
  Write("updateLastVisited", u, id, NoInput,
        TouchRows(modulesTable, u, id, clock))

\* time passes
ClockTick ==
  /\ clock' = clock + 1
  /\ UNCHANGED <<modulesTable, lastOp, trav>>
  /\ UNCHANGED <<rlVars, errVars, concVars>>

(***************************************************************************)
(* update and updateLastVisited as the requests of concurrent callers: the *)
(* handler evaluates new Date() when it builds the statement, and the      *)
(* store applies the statement later.                                      *)
(***************************************************************************)
NoPending == [pc |-> "idle", op |-> "none", caller |-> "u1", id |-> UnknownId,
              input |-> NoInput, at |-> 0]

\* update: findFirst, and the NOT_FOUND throw
UpdateFindFirst(p, u, id, input) ==
  /\ pending[p].pc = "idle"
  /\ IF UpdateError(modulesTable, u, id) # NoError
     THEN /\ lastOp' = Call("update", u, id, input, NoLimit, NoCursor, "none",
                            Failure(UpdateError(modulesTable, u, id)))
          /\ UNCHANGED pending
     ELSE /\ pending' = [pending EXCEPT ![p] =
                           [pc |-> "set", op |-> "update", caller |-> u,
                            id |-> id, input |-> input, at |-> 0]]
          /\ UNCHANGED lastOp
  /\ UNCHANGED <<clock, modulesTable, trav>>
  /\ UNCHANGED <<rlVars, errVars>>

\* update: set({ ..., modifiedAt: new Date() })
UpdateReadClock(p) ==
  /\ pending[p].pc = "set"
  /\ pending' = [pending EXCEPT ![p].pc = "write", ![p].at = clock]
  /\ UNCHANGED modVars
  /\ UNCHANGED <<rlVars, errVars>>

\* updateLastVisited: set({ lastVisited: new Date() })
TouchReadClock(p, u, id) ==
  /\ pending[p].pc = "idle"
  /\ pending' = [pending EXCEPT ![p] =
                   [pc |-> "write", op |-> "updateLastVisited", caller |-> u,
                    id |-> id, input |-> NoInput, at |-> clock]]
  /\ UNCHANGED modVars
  /\ UNCHANGED <<rlVars, errVars>>

\* the store applies the statement of p
Commit(p) ==
  /\ pending[p].pc = "write"
  /\ LET c == pending[p]
         tbl == IF c.op = "update"
                THEN UpdateRows(modulesTable, c.caller, c.id, c.input, c.at)
                ELSE TouchRows(modulesTable, c.caller, c.id, c.at)
     IN /\ modulesTable' = tbl
        /\ lastOp' = Call(c.op, c.caller, c.id, c.input, NoLimit, NoCursor,
                          "none",
                          Result(NoError, {}, <<>>, NoCursor,
                                 Affected(modulesTable, c.caller, c.id)))
        /\ trav' = TravAfterWrite(tbl)
  /\ pending' = [pending EXCEPT ![p] = NoPending]
  /\ UNCHANGED clock
  /\ UNCHANGED <<rlVars, errVars>>

InitPending == pending = [p \in Procs |-> NoPending]

CursorInputs == {NoCursor} \cup AllIds
CrudIds == UnknownId..MaxCrudModules
WriteOps == {"create", "archive", "recover", "update", "updateLastVisited"}
StoreFaults == Faults \ {"none"}
ListInput == CHOOSE i \in CreateInputs : i.credits = 4
EditInput == CHOOSE i \in UpdateInputs : i.credits = 6

\* the model holds at most n rows, and its clock stops at t
Rows(n) == Cardinality(modulesTable) < n

Before(t) == clock < t

\* the limit and cursor of a listing request
ListInputs ==
  ((1..MaxPageLimit) \cup {NoLimit}) \X CursorInputs
    \cup {<<LimitMin - 1, NoCursor>>, <<LimitMax + 1, NoCursor>>,
          <<NoLimit, MalformedCursor>>}

InitModules ==
  /\ clock = 0
  /\ modulesTable = {}
  /\ lastOp = NoCall
  /\ trav = NoTrav

Init == InitRL /\ InitModules /\ InitErrors /\ InitPending

\* the Module API without the listing
Next ==
  \/ \E u \in Users, id \in CrudIds : GetById(u, id, "none")
  \/ \E f \in StoreFaults : GetById("u1", UnknownId, f)
  \/ \E u \in Users : Rows(MaxCrudModules) /\ Create(u, ListInput)
  \/ \E u \in Users, id \in CrudIds : Archive(u, id)
  \/ \E u \in Users, id \in CrudIds : Recover(u, id)
  \/ \E u \in Users, id \in CrudIds : Update(u, id, EditInput)
  \/ \E u \in Users, id \in CrudIds : UpdateLastVisited(u, id)
  \/ \E op \in WriteOps, f \in StoreFaults : StoreFails(op, "u1", f)
  \/ Before(MaxCrudClock) /\ ClockTick

\* the listing, with any limit and any cursor
NextList ==
  \/ \E u \in Users, i \in ListInputs : GetUserModules(u, i[1], i[2])
  \/ \E u \in Users : Rows(MaxModules) /\ Create(u, ListInput)
  \/ \E u \in Users, id \in AllIds : UpdateLastVisited(u, id)
  \/ Before(MaxClock) /\ ClockTick

\* a client that follows nextCursor
NextPaging ==
  \/ \E u \in Users, l \in 1..MaxPageLimit : FirstPage(u, l)
  \/ NextPage
  \/ \E u \in Users : Rows(MaxModules) /\ Create(u, ListInput)
  \/ \E u \in Users, id \in AllIds : UpdateLastVisited(u, id)
  \/ Before(MaxClock) /\ ClockTick

Spec == Init /\ [][Next]_vars

SpecList == Init /\ [][NextList]_vars

SpecPaging == Init /\ [][NextPaging]_vars

\* the error classes, constructed with every shape of arguments
NextErrors ==
  \/ \E c \in Codes, m \in Messages, st \in StatusCodes : NewAppError(c, m, st)
  \/ \E r \in Resources, i \in OptIdentifiers : NewNotFoundError(r, i)
  \/ \E m \in OptMessages : NewUnauthorizedError(m)
  \/ \E m \in OptMessages : NewForbiddenError(m)
  \/ \E m \in Messages, f \in OptFields : NewValidationError(m, f)
  \/ \E m \in Messages : NewConflictError(m)
  \/ \E m \in OptMessages, ra \in OptRetryAfter : NewRateLimitError(m, ra)
  \/ \E m \in OptMessages : NewInternalError(m)

SpecErrors == Init /\ [][NextErrors]_vars

\* create, read back and edit with every shape of input
NextFields ==
  \/ \E u \in Users, i \in CreateInputs : Rows(MaxCrudModules) /\ Create(u, i)
  \/ \E u \in Users, id \in CrudIds : GetById(u, id, "none")
  \/ \E u \in Users, id \in CrudIds, i \in UpdateInputs : Update(u, id, i)
  \/ Before(MaxCrudClock) /\ ClockTick

SpecFields == Init /\ [][NextFields]_vars

\* every procedure, on modules that are archived and recovered
NextLifecycle ==
  \/ \E u \in Users : Rows(MaxCrudModules) /\ Create(u, ListInput)
  \/ \E u \in Users, id \in CrudIds : Archive(u, id)
  \/ \E u \in Users, id \in CrudIds : Recover(u, id)
  \/ \E u \in Users, id \in CrudIds : Update(u, id, EditInput)
  \/ \E u \in Users, id \in CrudIds : UpdateLastVisited(u, id)
  \/ \E u \in Users, id \in CrudIds : GetById(u, id, "none")
  \/ \E u \in Users : GetUserModules(u, NoLimit, NoCursor)
  \/ Before(MaxCrudClock) /\ ClockTick

SpecLifecycle == Init /\ [][NextLifecycle]_vars

\* the procedures that write, on several modules: both users create, and u1
\* writes to its own modules and to the ids of the modules of u2
NextWrites ==
  \/ \E u \in Users : Rows(MaxModules) /\ Create(u, ListInput)
  \/ \E id \in Ids : Archive("u1", id)
  \/ \E id \in Ids : Recover("u1", id)
  \/ \E id \in Ids : Update("u1", id, EditInput)
  \/ \E id \in Ids : UpdateLastVisited("u1", id)
  \/ Before(MaxCrudClock) /\ ClockTick

SpecWrites == Init /\ [][NextWrites]_vars

\* a client of u1 that follows nextCursor while u1 visits its modules
NextRevisit ==
  \/ /\ Rows(MaxRevisitModules) /\ trav.state = "idle"
     /\ Create("u1", ListInput)
  \/ \E l \in 1..MaxRevisitLimit : FirstPage("u1", l)
  \/ NextPage
  \/ \E id \in 1..MaxRevisitModules : UpdateLastVisited("u1", id)
  \/ Before(MaxClock) /\ ClockTick

SpecRevisit == Init /\ [][NextRevisit]_vars

\* concurrent update and updateLastVisited requests
NextConcurrent ==
  \/ \E u \in Users : Rows(MaxCrudModules) /\ Create(u, ListInput)
  \/ \E p \in Procs, u \in Users, id \in CrudIds :
       UpdateFindFirst(p, u, id, EditInput)
  \/ \E p \in Procs : UpdateReadClock(p)
  \/ \E p \in Procs, u \in Users, id \in CrudIds : TouchReadClock(p, u, id)
  \/ \E p \in Procs : Commit(p)
  \/ Before(MaxClock) /\ ClockTick

SpecConcurrent == Init /\ [][NextConcurrent]_vars

NextRL ==
  \/ \E p \in Procs, i \in Identifiers, l \in Limits, w \in Windows :
       RateLimitCall(p, i, l, w)
  \/ \E p \in Procs : Incr(p)
  \/ \E p \in Procs : IncrFails(p)
  \/ \E p \in Procs : Expire(p)
  \/ \E p \in Procs : ExpireFails(p)
  \/ \E p \in Procs : Ttl(p)
  \/ \E p \in Procs : TtlFails(p)
  \/ \E p \in Procs : Return(p)
  \/ Tick

SpecRL == Init /\ [][NextRL]_vars

(***************************************************************************)
(* Claims about the rate limiter.                                          *)
(***************************************************************************)
Done(p) == rl[p].pc = "done"

\* C1: with a store that has never failed, the Nth call counted in a window
\* returns success exactly when N <= limit, with remaining = limit - N, and
\* every later call of the window is denied with remaining 0; the count
\* starts again once the window set by the window's first call has elapsed.
C1_FixedWindow ==
  \A p \in Procs :
    (Done(p) /\ ~everFailed) =>
      /\ rl[p].result.success = (rl[p].ord <= rl[p].limit)
      /\ rl[p].ord <= rl[p].limit =>
           rl[p].result.remaining = rl[p].limit - rl[p].ord
      /\ rl[p].ord > rl[p].limit => rl[p].result.remaining = 0

\* a call was denied in one window and the first call of a later window is
\* allowed again
C1_Witness ==
  \E p, q \in Procs :
    /\ Done(p) /\ Done(q) /\ ~everFailed
    /\ rl[p].identifier = rl[q].identifier
    /\ ~rl[q].result.success /\ rl[q].result.remaining = 0
    /\ rl[q].ord = rl[q].limit + 1
    /\ rl[q].at < rl[p].at
    /\ rl[p].ord = 1 /\ rl[p].result.success

\* C2: a call in which a store operation failed returns success = TRUE,
\* remaining = limit and reset = Date.now() + window * 1000, and no call is
\* ever left in an error state.
C2_FailOpen ==
  \A p \in Procs :
    /\ rl[p].pc \in {"idle", "incr", "expire", "ttl", "done"}
    /\ (Done(p) /\ rl[p].failed) =>
         /\ rl[p].result.success
         /\ rl[p].result.remaining = rl[p].limit
         /\ rl[p].result.reset = DateNow(rl[p].at) + rl[p].window * MsPerSecond

\* a call whose increment was applied and whose later store operation failed
C2_Witness ==
  \E p \in Procs :
    Done(p) /\ rl[p].failed /\ rl[p].count >= 1 /\ rl[p].limit > 1

\* C3: whenever no call stands between its increment and its expire step,
\* every counter key of the store has an expiry.
C3_EveryCounterExpires ==
  (\A p \in Procs : rl[p].pc # "expire") =>
    \A k \in Keys : KeyExists(kv, k) => kv[k].exp # NoExpiry

\* C19: a call none of whose store operations failed returns
\* success = (count <= limit) and remaining = max(0, limit - count) for the
\* count its own increment returned; remaining is never negative and is 0
\* whenever the call is denied.
C19_ResultFromCount ==
  \A p \in Procs :
    (Done(p) /\ ~rl[p].failed) =>
      LET count == rl[p].count
          limit == rl[p].limit
          res == rl[p].result
      IN /\ count >= 1
         /\ res.success = (count <= limit)
         /\ res.remaining = IF limit - count > 0 THEN limit - count ELSE 0
         /\ res.remaining >= 0
         /\ ~res.success => res.remaining = 0

\* a call whose increment returned more than limit + 1 was denied
C19_Witness ==
  \E p \in Procs :
    /\ Done(p) /\ ~rl[p].failed
    /\ rl[p].count > rl[p].limit + 1
    /\ ~rl[p].result.success

\* C20: the expiry of a counter key is only ever set by the call whose
\* increment returned 1, and only while the key has none: no call, allowed
\* or denied, moves the expiry of a window once it is set.
C20_WindowSetOnce ==
  [][\A k \in Keys :
       (KeyExists(kv', k) /\ kv'[k].exp # kv[k].exp) =>
         /\ kv[k].exp = NoExpiry
         /\ \E p \in Procs :
              /\ Key(rl[p].identifier) = k
              /\ rl[p].pc = "expire" /\ rl'[p].pc = "ttl"
              /\ rl[p].count = 1]_vars

\* two calls ran concurrently on one key: the second incremented it before
\* the first had set the expiry, and the key now has the first call's expiry
C20_Witness ==
  \E p, q \in Procs, k \in Keys :
    /\ p # q /\ Key(rl[p].identifier) = k /\ Key(rl[q].identifier) = k
    /\ rl[p].count = 1 /\ rl[p].pc \in {"ttl", "done"} /\ ~rl[p].failed
    /\ rl[q].count = 2 /\ Done(q) /\ ~rl[q].failed
    /\ kv[k].count = 2 /\ kv[k].exp # NoExpiry

\* C26: with a store that has never failed, the calls that incremented a
\* counter in one lifetime of its key got pairwise distinct counts, and a call
\* is only allowed with a count from 1 to its limit: of the calls of one
\* lifetime that share a limit, no more than limit are allowed.
C26_AllowedAtMostLimit ==
  ~everFailed =>
    /\ \A p \in Procs :
         (Done(p) /\ rl[p].result.success) =>
           (1 <= rl[p].count /\ rl[p].count <= rl[p].limit)
    /\ \A p, q \in Procs :
         (/\ p # q /\ rl[p].count > 0 /\ rl[q].count > 0
          /\ rl[p].identifier = rl[q].identifier
          /\ rl[p].life = rl[q].life) =>
           rl[p].count # rl[q].count

\* of three calls of one lifetime with limit 2, the second was allowed and
\* the third, under way at the same time, denied
C26_Witness ==
  \E p, q \in Procs :
    /\ p # q /\ Done(p) /\ Done(q) /\ ~everFailed
    /\ rl[p].identifier = rl[q].identifier /\ rl[p].life = rl[q].life
    /\ rl[p].limit = 2 /\ rl[q].limit = 2
    /\ rl[p].count = 2 /\ rl[p].result.success
    /\ rl[q].count = 3 /\ ~rl[q].result.success

\* C27: the reset a call returns is neither earlier than the time of the
\* call nor later than that time plus window * 1000 ms.
C27_ResetWithinWindow ==
  \A p \in Procs :
    Done(p) =>
      /\ rl[p].result.reset >= DateNow(rl[p].at)
      /\ rl[p].result.reset <= DateNow(rl[p].at) + rl[p].window * MsPerSecond

(***************************************************************************)
(* Claims about the Module API.                                            *)
(***************************************************************************)
OwnRows(tbl, u) == {r \in tbl : r.user_id = u}

OwnedBy(tbl, u, id) == \E r \in tbl : r.id = id /\ r.user_id = u

OwnedByOther(tbl, u, id) == \E r \in tbl : r.id = id /\ r.user_id # u

Without(tbl, id) == {r \in tbl : r.id # id}

IsCall(c, op) == c.op = op /\ c.fault = "none"

\* C4: getById returns the caller's module, and fails with NOT_FOUND when the
\* id is absent or the module is owned by another user.
C4_GetByIdNotFound ==
  IsCall(lastOp, "getById") =>
    IF OwnedBy(modulesTable, lastOp.caller, lastOp.id)
    THEN /\ lastOp.result.err = NoError
         /\ lastOp.result.rows =
              {ToJs(r) : r \in WhereIdAndUser(modulesTable, lastOp.id,
                                              lastOp.caller)}
    ELSE lastOp.result.err = "NOT_FOUND"

\* what getById, update or archive gives its caller on a table: the result
\* and the table afterwards
Outcome(op, tbl, u, id, input, t) ==
  CASE op = "getById" ->
         [result |-> GetByIdResult(tbl, u, id, "none"), table |-> tbl]
    [] op = "update" ->
         IF UpdateError(tbl, u, id) # NoError
         THEN [result |-> Failure(UpdateError(tbl, u, id)), table |-> tbl]
         ELSE [result |-> Result(NoError, {}, <<>>, NoCursor,
                                 Affected(tbl, u, id)),
               table |-> UpdateRows(tbl, u, id, input, t)]
    [] op = "archive" ->
         [result |-> Result(NoError, {}, <<>>, NoCursor, Affected(tbl, u, id)),
          table |-> SetArchived(tbl, u, id, TRUE)]

HidingOps == {"getById", "update", "archive"}

C6_ReadsScopedToCaller ==
  (IsCall(lastOp, "getUserModules") /\ lastOp.result.err = NoError) =>
    lastOp.result \in
      GetUserModulesResults(OwnRows(modulesTable, lastOp.caller), lastOp.caller,
                            ParseLimit(lastOp.limit), lastOp.cursor)

\* C7: a step of caller u leaves every row of another owner as it was, and
\* archive, recover and updateLastVisited on an id the caller does not own
\* affect zero rows.
C7_OtherOwnersRowsUntouched ==
  [][LET c == lastOp'
     IN /\ \A r \in modulesTable : r.user_id # c.caller => r \in modulesTable'
        /\ (/\ c.op \in {"archive", "recover", "updateLastVisited"}
            /\ c.fault = "none"
            /\ ~OwnedBy(modulesTable, c.caller, c.id)) =>
             c.result.affected = 0 /\ modulesTable' = modulesTable]_vars

\* updateLastVisited was called with the id of another user's module whose
\* lastVisited differs from the time of the call
C7_Witness ==
  /\ IsCall(lastOp, "updateLastVisited")
  /\ \E r \in modulesTable :
       /\ r.id = lastOp.id /\ r.user_id # lastOp.caller
       /\ r.lastVisited # ToDate(clock)
  /\ lastOp.result.affected = 0

\* C8: getUserModules accepts a limit of 1..100 (20 when absent) and returns
\* at most limit items, all owned by the caller, in descending lastVisited.
C8_ListBoundedOwnedOrdered ==
  lastOp.op = "getUserModules" =>
    LET items == lastOp.result.items
        limit == IF lastOp.limit = NoLimit THEN 20 ELSE lastOp.limit
    IN /\ (lastOp.result.err = NoError) =
            (1 <= limit /\ limit <= 100 /\ lastOp.cursor # MalformedCursor)
       /\ lastOp.result.err # NoError => items = <<>>
       /\ Len(items) <= limit
       /\ \A i \in DOMAIN items : items[i].user_id = lastOp.caller
       /\ \A i, j \in DOMAIN items :
            i < j => items[i].lastVisited >= items[j].lastVisited

\* a caller with more rows than the limit got a full page that starts with
\* the row visited last
C8_Witness ==
  /\ IsCall(lastOp, "getUserModules") /\ lastOp.cursor = NoCursor
  /\ lastOp.result.items # <<>>
  /\ Len(lastOp.result.items) = lastOp.limit
  /\ Cardinality(OwnRows(modulesTable, lastOp.caller)) > lastOp.limit
  /\ \E top \in OwnRows(modulesTable, lastOp.caller) :
       /\ top.id = Ids2Seq(lastOp.result.items)[1]
       /\ \E r \in OwnRows(modulesTable, lastOp.caller) :
            r.lastVisited < top.lastVisited

\* C9: with the store unchanged, the page asked for with the nextCursor of
\* the previous page has no item of the previous page.
C9_NextPageNoOverlap ==
  trav.clean => trav.prev \cap trav.page = {}

\* a second page with items, asked for with the store unchanged
C9_Witness ==
  trav.clean /\ trav.prev # {} /\ trav.page # {}

\* C10: with the store unchanged, the pages from the first request to the
\* one without nextCursor hold every module of the caller exactly once.
C10_PagingCompleteOnTies ==
  (trav.state = "done" /\ trav.clean) =>
    /\ SeqRange(trav.seen) = {r.id : r \in OwnRows(modulesTable, trav.user)}
    /\ Len(trav.seen) = Cardinality(OwnRows(modulesTable, trav.user))

\* C11: getUserModules returns a nextCursor exactly when the caller has more
\* rows matching the query than the limit, it is then the id of the last item
\* returned, and a page that is the last one or has no item carries none.
C11_NextCursorIffMore ==
  (IsCall(lastOp, "getUserModules") /\ lastOp.result.err = NoError) =>
    LET items == lastOp.result.items
        limit == ParseLimit(lastOp.limit)
        matching == Matching(modulesTable, lastOp.caller, lastOp.cursor)
        more == Cardinality(matching) > limit
    IN /\ (lastOp.result.nextCursor # NoCursor) = more
       /\ more => /\ Len(items) = limit
                  /\ lastOp.result.nextCursor = items[Len(items)].id
       /\ ~more => Len(items) = Cardinality(matching)
       /\ items = <<>> => lastOp.result.nextCursor = NoCursor

\* a page with a nextCursor was returned to a caller who has rows that are
\* not on it
C11_Witness ==
  /\ IsCall(lastOp, "getUserModules") /\ lastOp.result.err = NoError
  /\ lastOp.result.nextCursor # NoCursor
  /\ Cardinality(OwnRows(modulesTable, lastOp.caller)) > Len(lastOp.result.items)

\* a step in which a procedure was called (time passing is not one)
Called == lastOp' # lastOp \/ modulesTable' # modulesTable

\* C12: create returns one module, stored as returned, whose id no module had
\* before the call, owned by the caller, not archived, and with createdAt,
\* modifiedAt and lastVisited equal.
C12_CreateIsFresh ==
  [][(Called /\ IsCall(lastOp', "create")) =>
       /\ Cardinality(lastOp'.result.rows) = 1
       /\ \A m \in lastOp'.result.rows :
            /\ m.id \notin {r.id : r \in modulesTable}
            /\ m.user_id = lastOp'.caller
            /\ ~m.archived
            /\ m.createdAt = m.modifiedAt /\ m.modifiedAt = m.lastVisited
            /\ \E r \in modulesTable' \ modulesTable :
                 /\ ToJs(r) = m
                 /\ r.createdAt = r.modifiedAt /\ r.modifiedAt = r.lastVisited
                 /\ modulesTable' = modulesTable \cup {r}]_vars

\* create returned a module to a caller of whom the store already held a
\* module
C12_Witness ==
  /\ IsCall(lastOp, "create")
  /\ \E m \in lastOp.result.rows :
       \E r \in modulesTable : r.id # m.id /\ r.user_id = m.user_id

\* C13: getById of the id create returned, by the caller of that create,
\* returns the module with the name, code and the credits, description, icon
\* and color given to create, credits 0, description '' or icon and color
\* 'default' where create was given none, and archived false.
C13_CreateThenGetById ==
  [][(/\ IsCall(lastOp, "create") /\ IsCall(lastOp', "getById")
      /\ lastOp'.caller = lastOp.caller
      /\ lastOp'.id \in {m.id : m \in lastOp.result.rows}) =>
       LET i == lastOp.input
       IN /\ lastOp'.result.err = NoError
          /\ Cardinality(lastOp'.result.rows) = 1
          /\ \A g \in lastOp'.result.rows :
               /\ g.id = lastOp'.id
               /\ g.name = i.name /\ g.code = i.code
               /\ g.credits = IF i.credits = AbsentNumber THEN 0 ELSE i.credits
               /\ g.description =
                    IF i.description = Absent THEN "" ELSE i.description
               /\ g.icon = IF i.icon = Absent THEN "default" ELSE i.icon
               /\ g.color = IF i.color = Absent THEN "default" ELSE i.color
               /\ ~g.archived]_vars

\* getById returned a module as it was created, without description, icon
\* and color
C13_Witness ==
  /\ IsCall(lastOp, "getById") /\ lastOp.result.err = NoError
  /\ \E g \in lastOp.result.rows :
       /\ g.description = "" /\ g.icon = "default" /\ g.color = "default"
       /\ g.name = "Algorithms" /\ g.credits = 4

\* C14: update fails with NOT_FOUND and leaves the store as it was when the
\* caller owns no module with the id; otherwise it succeeds, the module has
\* the fields supplied, and its modifiedAt is the time of the call (to the
\* millisecond).
C14_UpdateNotFoundOrApplied ==
  [][(Called /\ IsCall(lastOp', "update")) =>
       LET c == lastOp'
           i == c.input
       IN IF ~OwnedBy(modulesTable, c.caller, c.id)
          THEN c.result.err = "NOT_FOUND" /\ modulesTable' = modulesTable
          ELSE /\ c.result.err = NoError
               /\ \E r \in modulesTable' :
                    /\ r.id = c.id /\ r.user_id = c.caller
                    /\ r.name = i.name /\ r.code = i.code
                    /\ i.description # Absent => r.description = i.description
                    /\ i.icon # Absent => r.icon = i.icon
                    /\ i.color # Absent => r.color = i.color
                    /\ i.credits # AbsentNumber => r.credits = i.credits
                    /\ r.modifiedAt <= clock
                    /\ clock - r.modifiedAt < TicksPerMs]_vars

\* an update was refused for the id of another user's module
C14_Witness ==
  /\ IsCall(lastOp, "update") /\ lastOp.result.err = "NOT_FOUND"
  /\ OwnedByOther(modulesTable, lastOp.caller, lastOp.id)

\* C15: an update of an owned module never leaves its modifiedAt lower than
\* it was before the call, nor lower than its createdAt.
C15_ModifiedAtMonotone ==
  [][(Called /\ IsCall(lastOp', "update") /\ lastOp'.result.err = NoError) =>
       \A r \in modulesTable, r2 \in modulesTable' :
         (r.id = lastOp'.id /\ r2.id = r.id) =>
           /\ r2.modifiedAt >= r.modifiedAt
           /\ r2.modifiedAt >= r2.createdAt]_vars

\* C16: a recover that follows an archive of the same module by its owner
\* leaves the module not archived and with every other field as it was before
\* the archive.
C16_ArchiveThenRecover ==
  [][(/\ IsCall(lastOp, "archive") /\ Called /\ IsCall(lastOp', "recover")
      /\ lastOp'.caller = lastOp.caller /\ lastOp'.id = lastOp.id) =>
       \A r0 \in lastOp.was :
         /\ [r0 EXCEPT !.archived = FALSE] \in modulesTable'
         /\ \A r \in modulesTable' :
              r.id = r0.id => r = [r0 EXCEPT !.archived = FALSE]]_vars

\* an archived module that had been edited was recovered by its owner
C16_Witness ==
  /\ IsCall(lastOp, "recover")
  /\ \E r0 \in lastOp.was :
       /\ r0.archived /\ r0.name = "Networks"
       /\ [r0 EXCEPT !.archived = FALSE] \in modulesTable

\* C17: whatever the constructor arguments, a NotFoundError has code
\* NOT_FOUND and status 404, an UnauthorizedError UNAUTHORIZED and 401, a
\* ForbiddenError FORBIDDEN and 403, a ValidationError VALIDATION_ERROR and 400,
\* a ConflictError CONFLICT and 409, a RateLimitError RATE_LIMIT_EXCEEDED and
\* 429, an InternalError INTERNAL_ERROR and 500; an AppError built without a
\* status has status 500.
C17_FixedCodeAndStatus ==
  LET k == appError.call.kind
      e == appError.error
      Is(code, status) == e.code = code /\ e.statusCode = status
  IN /\ k = "NotFoundError" => Is("NOT_FOUND", 404)
     /\ k = "UnauthorizedError" => Is("UNAUTHORIZED", 401)
     /\ k = "ForbiddenError" => Is("FORBIDDEN", 403)
     /\ k = "ValidationError" => Is("VALIDATION_ERROR", 400)
     /\ k = "ConflictError" => Is("CONFLICT", 409)
     /\ k = "RateLimitError" => Is("RATE_LIMIT_EXCEEDED", 429)
     /\ k = "InternalError" => Is("INTERNAL_ERROR", 500)
     /\ (k = "AppError" /\ appError.call.statusCode = AbsentNumber) =>
          e.statusCode = 500 /\ e.code = appError.call.code

\* an AppError was built from a code and a message alone
C17_Witness ==
  /\ appError.call.kind = "AppError"
  /\ appError.call.statusCode = AbsentNumber
  /\ appError.error.code = "TEAPOT"

\* the classes of src/lib/errors.ts
TaxonomyKinds ==
  {"AppError", "NotFoundError", "UnauthorizedError", "ForbiddenError",
   "ValidationError", "ConflictError", "RateLimitError", "InternalError"}

\* C18: what a failing Module API call raises is an error of one of the
\* classes of the taxonomy.
C18_FailuresAreTaxonomyErrors ==
  (lastOp.op # "none" /\ lastOp.result.err # NoError) =>
    ThrownClass(lastOp.result.err) \in TaxonomyKinds

\* C21: no step lowers the createdAt, modifiedAt or lastVisited of a module,
\* whatever the interleaving of the update and updateLastVisited requests.
C21_TimestampsNeverDecrease ==
  [][\A r \in modulesTable, r2 \in modulesTable' :
       r2.id = r.id =>
         /\ r2.createdAt >= r.createdAt
         /\ r2.modifiedAt >= r.modifiedAt
         /\ r2.lastVisited >= r.lastVisited]_vars

\* C22: updateLastVisited on a module of the caller sets its lastVisited to
\* the time of the call (to the millisecond) and changes nothing else in the
\* store; a getUserModules without cursor by the same caller directly after
\* it returns that module first when no other module of the caller has a
\* later lastVisited.
C22_VisitedIsListedFirst ==
  [][/\ (/\ Called /\ IsCall(lastOp', "updateLastVisited")
         /\ OwnedBy(modulesTable, lastOp'.caller, lastOp'.id)) =>
          \E r \in modulesTable :
            /\ Matches(r, lastOp'.id, lastOp'.caller)
            /\ \E lv \in 0..clock :
                 /\ clock - lv < TicksPerMs
                 /\ modulesTable' =
                      (modulesTable \ {r}) \cup {[r EXCEPT !.lastVisited = lv]}
     /\ (/\ IsCall(lastOp, "updateLastVisited") /\ lastOp.result.affected = 1
         /\ IsCall(lastOp', "getUserModules")
         /\ lastOp'.caller = lastOp.caller /\ lastOp'.cursor = NoCursor
         /\ lastOp'.result.err = NoError
         /\ \A r \in modulesTable, o \in OwnRows(modulesTable, lastOp.caller) :
              r.id = lastOp.id => o.lastVisited <= r.lastVisited) =>
          /\ lastOp'.result.items # <<>>
          /\ lastOp'.result.items[1].id = lastOp.id]_vars

\* the store, or the items of a page, with every archived flag inverted
Flip(tbl) == {[r EXCEPT !.archived = ~@] : r \in tbl}

FlipSeq(items) == [i \in DOMAIN items |-> [items[i] EXCEPT !.archived = ~@]]

\* C23: create yields a module that is not archived; the archived flag of a
\* module only changes in an archive (to true) or a recover (to false) of that
\* module by its owner; and getById, getUserModules, update and
\* updateLastVisited return and write the same whether the modules are
\* archived or active.
C23_ArchivedStateMachine ==
  [][Called =>
       LET c == lastOp'
           tbl == modulesTable
           flipped == Flip(modulesTable)
       IN /\ IsCall(c, "create") =>
               \A r \in modulesTable' \ tbl : ~r.archived
          /\ \A r \in tbl, r2 \in modulesTable' :
               (r2.id = r.id /\ r2.archived # r.archived) =>
                 /\ c.op \in {"archive", "recover"}
                 /\ c.id = r.id /\ c.caller = r.user_id
                 /\ r2.archived = (c.op = "archive")
          /\ IsCall(c, "getById") =>
               c.result = [GetByIdResult(flipped, c.caller, c.id, "none")
                             EXCEPT !.rows = Flip(@)]
          /\ (IsCall(c, "getUserModules") /\ c.result.err = NoError) =>
               [c.result EXCEPT !.items = FlipSeq(@)] \in
                 GetUserModulesResults(flipped, c.caller, ParseLimit(c.limit),
                                       c.cursor)
          /\ IsCall(c, "update") =>
               /\ c.result.err = UpdateError(flipped, c.caller, c.id)
               /\ c.result.err = NoError =>
                    Flip(modulesTable') =
                      UpdateRows(flipped, c.caller, c.id, c.input, clock)
          /\ IsCall(c, "updateLastVisited") =>
               /\ c.result.affected = Affected(flipped, c.caller, c.id)
               /\ Flip(modulesTable') =
                    TouchRows(flipped, c.caller, c.id, clock)]_vars

\* getUserModules returned an archived module that had been edited
C23_Witness ==
  /\ IsCall(lastOp, "getUserModules")
  /\ \E i \in DOMAIN lastOp.result.items :
       lastOp.result.items[i].archived /\ lastOp.result.items[i].name = "Networks"

\* C24: the ids of the modules are pairwise distinct, every module has an
\* owner, and no step removes a module or changes its id, owner or createdAt.
C24_IdentityIsStable ==
  [][/\ \A r, q \in modulesTable' : r.id = q.id => r = q
     /\ \A r \in modulesTable' : r.user_id \in Users /\ r.user_id # ""
     /\ Cardinality(modulesTable') >= Cardinality(modulesTable)
     /\ \A r \in modulesTable :
          \E r2 \in modulesTable' :
            /\ r2.id = r.id /\ r2.user_id = r.user_id
            /\ r2.createdAt = r.createdAt]_vars

\* two modules of different owners, one of them archived and edited after
\* the tick in which it was created
C24_Witness ==
  \E r, q \in modulesTable :
    /\ r.id # q.id /\ r.user_id # q.user_id
    /\ q.archived /\ q.name = "Networks" /\ q.createdAt > q.modifiedAt

\* the tRPC codes of the client-error class (status 4xx)
ClientErrorCodes == {"BAD_REQUEST", "NOT_FOUND", "UNAUTHORIZED", "FORBIDDEN",
                     "CONFLICT"}

\* C25: a Module API call in which the store failed ends in an error (the
\* failure is not swallowed), and that error is of the Internal class, not
\* of a client-error class.
C25_StoreFailureIsInternal ==
  (lastOp.op # "none" /\ lastOp.fault # "none") =>
    /\ lastOp.result.err # NoError
    /\ lastOp.result.err \notin ClientErrorCodes

\* C28: a successful update leaves every field that its input omits
\* (description, icon, color, credits) as it was, and never changes id, owner,
\* archived, createdAt or lastVisited.
C28_UpdateKeepsOmittedFields ==
  [][(Called /\ IsCall(lastOp', "update") /\ lastOp'.result.err = NoError) =>
       LET i == lastOp'.input
       IN \A r \in modulesTable :
            \E r2 \in modulesTable' :
              /\ r2.id = r.id /\ r2.user_id = r.user_id
              /\ r2.archived = r.archived /\ r2.createdAt = r.createdAt
              /\ r2.lastVisited = r.lastVisited
              /\ i.description = Absent => r2.description = r.description
              /\ i.icon = Absent => r2.icon = r.icon
              /\ i.color = Absent => r2.color = r.color
              /\ i.credits = AbsentNumber => r2.credits = r.credits]_vars

\* C29: the second page of a traversal has no item of the first page, also
\* when the caller's updateLastVisited changed the store between the two
\* requests.
C29_SecondPageNoOverlap ==
  (/\ trav.state # "idle" /\ trav.prev # {}
   /\ Len(trav.seen) = Cardinality(trav.prev) + Cardinality(trav.page)) =>
    trav.prev \cap trav.page = {}

\* C30 as stated: a getUserModules whose cursor is the id of no module raises
\* no error and returns what the same call without a cursor returns.
C30_UnknownCursorIsNoCursor ==
  (/\ IsCall(lastOp, "getUserModules") /\ lastOp.cursor # NoCursor
   /\ WhereId(modulesTable, lastOp.cursor) = {}
   /\ ValidLimit(ParseLimit(lastOp.limit))) =>
    /\ lastOp.result.err = NoError
    /\ lastOp.result \in
         GetUserModulesResults(modulesTable, lastOp.caller,
                               ParseLimit(lastOp.limit), NoCursor)

\* C30 amended: a getUserModules whose cursor is a well-formed UUID that is
\* the id of no module raises no error and returns what the same call without
\* a cursor returns; a cursor that is not a UUID is rejected with BAD_REQUEST.
C30_UnknownUuidCursorIsNoCursor ==
  (/\ IsCall(lastOp, "getUserModules") /\ lastOp.cursor # NoCursor
   /\ WhereId(modulesTable, lastOp.cursor) = {}
   /\ ValidLimit(ParseLimit(lastOp.limit))) =>
    IF lastOp.cursor = MalformedCursor
    THEN lastOp.result = Failure("BAD_REQUEST")
    ELSE /\ lastOp.result.err = NoError
         /\ lastOp.result \in
              GetUserModulesResults(modulesTable, lastOp.caller,
                                    ParseLimit(lastOp.limit), NoCursor)

\* a request with the id of no module as cursor got a full first page with a
\* nextCursor
C30_Witness ==
  /\ IsCall(lastOp, "getUserModules") /\ lastOp.cursor = UnknownId
  /\ lastOp.result.err = NoError
  /\ lastOp.result.items # <<>> /\ lastOp.result.nextCursor # NoCursor

====
